---- MODULE Spec2Model ----
(***************************************************************************)
(* Earliest-deadline-first I/O scheduler (block/edf-iosched.c).            *)
(*                                                                         *)
(* The scheduler keeps two FIFO lists of requests (read_list, write_list). *)
(* Every request carries a deadline ("fifo time").  The block layer calls  *)
(* edf_add_request, edf_merge_request and edf_dispatch under the queue     *)
(* lock, one call at a time; sysfs stores change the tunables.             *)
(*                                                                         *)
(* The clock is scaled: HZ ticks per second with a small HZ.  Requests     *)
(* arrive during the first MaxAdmitJiffies ticks and the clock stops at    *)
(* MaxJiffies, when every deadline that can have been set has passed.      *)
(* Deadlines stay below half the width of unsigned long, so time_before is *)
(* plain "<" on the values modelled.  Each operation is an operator that   *)
(* yields what the call leaves behind, and an action that installs it.     *)
(***************************************************************************)
EXTENDS Integers, Sequences, FiniteSets, TLC

(* ---- bounds of the model ---- *)
NumRequests == 3        \* requests the block layer creates
MaxAdmitJiffies == 1    \* last tick at which a request arrives
MaxWeightInput == 0     \* largest value written to a weight attribute
HZ == 1                 \* clock ticks per second

(* ---- program constants ---- *)
INT_MAX == 2147483647
DefaultReadWeight == 2
DefaultWriteWeight == 4

READ == "READ"
WRITE == "WRITE"

Requests == 1..NumRequests
Dirs == {READ, WRITE}

VARIABLES
    jiffies,            \* the kernel clock
    read_list,          \* edf->read_list, head to tail
    write_list,         \* edf->write_list, head to tail
    fifo_time,          \* rq_fifo_time(rq) of every request
    data_dir,           \* rq_data_dir(rq) of every request
    admitted,           \* requests handed to edf_add_request so far
    dispatch_list,      \* q->queue_head: requests handed on by elv_dispatch_add_tail
    batched_requests,
    merged_requests,
    timeslice_quanta,
    read_weight,
    write_weight,
    merged_away,        \* requests cleared by edf_merge_request as `next`
    zero_weight,        \* writes added while write_weight was 0
    elevator_data       \* "edf" while the edf_data is allocated, "freed" after
                        \* kfree, "BUG" once a BUG_ON has halted the kernel

vars == <<jiffies, read_list, write_list, fifo_time, data_dir, admitted,
          dispatch_list, batched_requests, merged_requests,
          timeslice_quanta, read_weight, write_weight, merged_away,
          zero_weight, elevator_data>>

(* ---- sequences ---- *)
Range(s) == {s[i] : i \in 1..Len(s)}

Min(a, b) == IF a <= b THEN a ELSE b

IndexOf(s, x) == CHOOSE i \in 1..Len(s) : s[i] = x

Without(s, x) == SelectSeq(s, LAMBDA y : y # x)

InsertAfter(s, i, x) == SubSeq(s, 1, i) \o <<x>> \o SubSeq(s, i + 1, Len(s))

(* ---- kernel list and time primitives used by the scheduler ---- *)

\* list_empty(&rq->queuelist): rq is linked into neither list
list_empty(rq) == rq \notin Range(read_list) /\ rq \notin Range(write_list)

\* time_before(a, b)
time_before(a, b) == a < b

\* a list after list_del(&rq->queuelist)
list_del(l, rq) == Without(l, rq)

\* a list after list_add_tail(&rq->queuelist, head)
list_add_tail(l, rq) == Append(l, rq)

\* a list after list_move(&rq->queuelist, &after->queuelist):
\* rq is taken out of whatever list it is on and put right behind `after`
\* when `after` is on this list
list_move(l, rq, after) ==
    LET d == list_del(l, rq)
    IN  IF after \in Range(d) THEN InsertAfter(d, IndexOf(d, after), rq) ELSE d

(* ---- deadline management ---- *)
\* a * b in unsigned int arithmetic: the low 32 bits of the product, for
\* 0 <= a, b <= INT_MAX.  The product is formed on 16-bit halves,
\*   a * b = ah * bh * 2^32 + (ah * bl + al * bh) * 2^16 + al * bl,
\* so that no intermediate value leaves the integers TLC can hold; the
\* result itself can be held when it is below 2^31.
umul32(a, b) ==
    LET h == 65536
        al == a % h
        ah == a \div h
        bl == b % h
        bh == b \div h
        p0 == al * (bl % 256)
        p1 == al * (bl \div 256)
        low == p0 + (p1 % 256) * 256
        carry == (low \div h) + (p1 \div 256)
        hi16 == (carry + ((ah * bl) % h) + ((al * bh) % h)) % h
    IN  hi16 * h + (low % h)

edf_read_expiry == jiffies + umul32(timeslice_quanta, read_weight)

edf_write_expiry == jiffies + umul32(timeslice_quanta, write_weight)

\* msecs_to_jiffies(m), for HZ dividing 1000:
\* (m + (1000 / HZ) - 1) / (1000 / HZ), which the kernel forms in unsigned
\* int; written by quotient and remainder so that m can be as large as
\* INT_MAX
msecs_to_jiffies(m) ==
    (m \div (1000 \div HZ)) + (IF m % (1000 \div HZ) = 0 THEN 0 ELSE 1)

timeslice_quanta_default == 2 * HZ

\* values written to the sysfs attributes
WeightInputs == (-1)..MaxWeightInput
QuantaInputs == {-1, (1000 \div HZ) + 1}

\* the largest deadline a request can get, where the clock stops
SetMax(S) == CHOOSE x \in S : \A y \in S : y <= x
MaxQuanta ==
    SetMax({timeslice_quanta_default} \cup {msecs_to_jiffies(m) : m \in QuantaInputs \cap Nat})
MaxWeight == SetMax({DefaultReadWeight, DefaultWriteWeight, MaxWeightInput})
MaxJiffies == MaxAdmitJiffies + MaxQuanta * MaxWeight

Init ==
    /\ jiffies = 0
    /\ read_list = <<>>
    /\ write_list = <<>>
    /\ fifo_time = [r \in Requests |-> 0]
    /\ data_dir = [r \in Requests |-> READ]
    /\ admitted = {}
    /\ dispatch_list = <<>>
    /\ batched_requests = 0
    /\ merged_requests = 0
    /\ timeslice_quanta = timeslice_quanta_default
    /\ read_weight = DefaultReadWeight
    /\ write_weight = DefaultWriteWeight
    /\ merged_away = {}
    /\ zero_weight = {}
    /\ elevator_data = "edf"

(* ---- edf_add_request ---- *)
\* edf_add_request with list_add in place of list_add_tail
edf_add_request_list_add(rq, dir) ==
    LET deadline == IF dir = READ THEN edf_read_expiry ELSE edf_write_expiry
    IN  [fifo_time  |-> [fifo_time EXCEPT ![rq] = deadline],
         read_list  |-> IF dir = READ THEN <<rq>> \o read_list ELSE read_list,
         write_list |-> IF dir = READ THEN write_list ELSE <<rq>> \o write_list]

\* what edf_add_request(q, rq) leaves behind, for a request of direction dir
edf_add_request(rq, dir) ==
    LET deadline == IF dir = READ THEN edf_read_expiry ELSE edf_write_expiry
    IN  [fifo_time  |-> [fifo_time EXCEPT ![rq] = deadline],
         read_list  |-> IF dir = READ THEN list_add_tail(read_list, rq)
                                      ELSE read_list,
         write_list |-> IF dir = READ THEN write_list
                                      ELSE list_add_tail(write_list, rq)]

\* the block layer hands over a new request of direction dir; requests are
\* numbered in the order they arrive
AdmitCall(rq, dir) ==
    LET res == edf_add_request(rq, dir)
    IN  /\ jiffies <= MaxAdmitJiffies
        /\ rq = Cardinality(admitted) + 1
        /\ rq \in Requests
        /\ fifo_time' = res.fifo_time
        /\ read_list' = res.read_list
        /\ write_list' = res.write_list
        /\ data_dir' = [data_dir EXCEPT ![rq] = dir]
        /\ admitted' = admitted \cup {rq}
        /\ zero_weight' = IF dir = WRITE /\ write_weight = 0
                          THEN zero_weight \cup {rq} ELSE zero_weight
        /\ UNCHANGED <<jiffies, dispatch_list, batched_requests,
                       merged_requests, timeslice_quanta, read_weight,
                       write_weight, merged_away,
                   elevator_data>>

Admit == \E rq \in Requests, dir \in Dirs : AdmitCall(rq, dir)

(* ---- edf_merge_request ---- *)
\* edf_merge_request with one of its statements changed:
\*   guardNode  FALSE: the early return looks at next only
\*   cmp        the comparison used in place of time_before(next, node)
\*   setTime    FALSE: node is moved but keeps its own deadline
\*   countAll   TRUE: merged_requests++ stands after the if block
\*   moveNode   FALSE: list_add in place of list_move, node is not unlinked first
merge_variant(node, next, guardNode, cmp(_, _), setTime, countAll, moveNode) ==
    IF (guardNode /\ list_empty(node)) \/ list_empty(next)
    THEN [read_list |-> read_list, write_list |-> write_list,
          fifo_time |-> fifo_time, merged_requests |-> merged_requests,
          cleared |-> FALSE]
    ELSE LET before == cmp(fifo_time[next], fifo_time[node])
             add(l) == IF next \in Range(l)
                       THEN InsertAfter(l, IndexOf(l, next), node) ELSE l
             move(l) == IF moveNode THEN list_move(l, node, next) ELSE add(l)
             rl == IF before THEN move(read_list) ELSE read_list
             wl == IF before THEN move(write_list) ELSE write_list
         IN  [read_list  |-> list_del(rl, next),
              write_list |-> list_del(wl, next),
              fifo_time  |-> IF before /\ setTime
                             THEN [fifo_time EXCEPT ![node] = fifo_time[next]]
                             ELSE fifo_time,
              merged_requests |-> IF before \/ countAll THEN merged_requests + 1
                                                        ELSE merged_requests,
              cleared |-> TRUE]

edf_merge_request_after(node, next) ==
    merge_variant(node, next, TRUE, LAMBDA a, b : b < a, TRUE, FALSE, TRUE)

edf_merge_request_before_eq(node, next) ==
    merge_variant(node, next, TRUE, LAMBDA a, b : a <= b, TRUE, FALSE, TRUE)

edf_merge_request_keep_time(node, next) ==
    merge_variant(node, next, TRUE, time_before, FALSE, FALSE, TRUE)

edf_merge_request_guard_next(node, next) ==
    merge_variant(node, next, FALSE, time_before, TRUE, FALSE, TRUE)

edf_merge_request_count_all(node, next) ==
    merge_variant(node, next, TRUE, time_before, TRUE, TRUE, TRUE)

edf_merge_request_list_add(node, next) ==
    merge_variant(node, next, TRUE, time_before, TRUE, FALSE, FALSE)

\* edf_merge_request without the list_move: node takes the deadline of next
\* and stays where it is
edf_merge_request_no_move(node, next) ==
    IF list_empty(node) \/ list_empty(next)
    THEN [read_list |-> read_list, write_list |-> write_list,
          fifo_time |-> fifo_time, merged_requests |-> merged_requests,
          cleared |-> FALSE]
    ELSE LET before == time_before(fifo_time[next], fifo_time[node])
         IN  [read_list  |-> list_del(read_list, next),
              write_list |-> list_del(write_list, next),
              fifo_time  |-> IF before
                             THEN [fifo_time EXCEPT ![node] = fifo_time[next]]
                             ELSE fifo_time,
              merged_requests |-> IF before THEN merged_requests + 1
                                            ELSE merged_requests,
              cleared |-> TRUE]

\* what edf_merge_request(q, node, next) leaves behind; cleared tells whether
\* it got as far as rq_fifo_clear(next)
edf_merge_request(node, next) ==
    IF list_empty(node) \/ list_empty(next)
    THEN [read_list |-> read_list, write_list |-> write_list,
          fifo_time |-> fifo_time, merged_requests |-> merged_requests,
          cleared |-> FALSE]
    ELSE LET before == time_before(fifo_time[next], fifo_time[node])
             rl == IF before THEN list_move(read_list, node, next) ELSE read_list
             wl == IF before THEN list_move(write_list, node, next) ELSE write_list
         IN  [read_list  |-> list_del(rl, next),
              write_list |-> list_del(wl, next),
              fifo_time  |-> IF before
                             THEN [fifo_time EXCEPT ![node] = fifo_time[next]]
                             ELSE fifo_time,
              merged_requests |-> IF before THEN merged_requests + 1
                                            ELSE merged_requests,
              cleared |-> TRUE]

\* the block layer merges next into node
MergeCall(node, next) ==
    LET res == edf_merge_request(node, next)
    IN  /\ node \in admitted
        /\ next \in admitted
        /\ node # next
        /\ read_list' = res.read_list
        /\ write_list' = res.write_list
        /\ fifo_time' = res.fifo_time
        /\ merged_requests' = res.merged_requests
        /\ merged_away' = IF res.cleared THEN merged_away \cup {next}
                                         ELSE merged_away
        /\ UNCHANGED <<jiffies, data_dir, admitted, dispatch_list,
                       batched_requests, timeslice_quanta, read_weight,
                       write_weight, zero_weight,
                   elevator_data>>

Merge == \E node \in Requests, next \in Requests : MergeCall(node, next)

(* ---- edf_dispatch ---- *)
\* edf_dispatch_queue with the arguments of time_before exchanged
RECURSIVE edf_dispatch_queue_swapped(_)
edf_dispatch_queue_swapped(head) ==
    IF head = <<>> THEN 0
    ELSE IF time_before(fifo_time[Head(head)], jiffies) THEN 0
    ELSE 1 + edf_dispatch_queue_swapped(Tail(head))

\* edf_dispatch_queue breaking also at a request whose deadline is jiffies
RECURSIVE edf_dispatch_queue_before_eq(_)
edf_dispatch_queue_before_eq(head) ==
    IF head = <<>> THEN 0
    ELSE IF jiffies <= fifo_time[Head(head)] THEN 0
    ELSE 1 + edf_dispatch_queue_before_eq(Tail(head))

\* the number of requests the walk over one list hands on before it breaks
RECURSIVE edf_dispatch_queue(_)
edf_dispatch_queue(head) ==
    IF head = <<>> THEN 0
    ELSE IF time_before(jiffies, fifo_time[Head(head)]) THEN 0
    ELSE 1 + edf_dispatch_queue(Tail(head))

\* edf_dispatch with "ctr =" in place of "ctr +=" for the write list
edf_dispatch_ctr_assign ==
    LET rctr == edf_dispatch_queue(read_list)
        wctr == edf_dispatch_queue(write_list)
    IN  [read_list  |-> SubSeq(read_list, rctr + 1, Len(read_list)),
         write_list |-> SubSeq(write_list, wctr + 1, Len(write_list)),
         dispatch_list |-> dispatch_list \o SubSeq(read_list, 1, rctr)
                                         \o SubSeq(write_list, 1, wctr),
         batched_requests |-> batched_requests + rctr + wctr,
         ret |-> wctr]

\* edf_dispatch without the walk over write_list
edf_dispatch_reads_only ==
    LET rctr == edf_dispatch_queue(read_list)
    IN  [read_list  |-> SubSeq(read_list, rctr + 1, Len(read_list)),
         write_list |-> write_list,
         dispatch_list |-> dispatch_list \o SubSeq(read_list, 1, rctr),
         batched_requests |-> batched_requests + rctr,
         ret |-> rctr]

\* what edf_dispatch(q, force) leaves behind, and its return value
edf_dispatch ==
    LET rctr == edf_dispatch_queue(read_list)
        wctr == edf_dispatch_queue(write_list)
    IN  [read_list  |-> SubSeq(read_list, rctr + 1, Len(read_list)),
         write_list |-> SubSeq(write_list, wctr + 1, Len(write_list)),
         dispatch_list |-> dispatch_list \o SubSeq(read_list, 1, rctr)
                                         \o SubSeq(write_list, 1, wctr),
         batched_requests |-> batched_requests + rctr + wctr,
         ret |-> rctr + wctr]

Dispatch ==
    LET res == edf_dispatch
    IN  /\ read_list' = res.read_list
        /\ write_list' = res.write_list
        /\ dispatch_list' = res.dispatch_list
        /\ batched_requests' = res.batched_requests
        /\ UNCHANGED <<jiffies, fifo_time, data_dir, admitted,
                       merged_requests, timeslice_quanta, read_weight,
                       write_weight, merged_away, zero_weight,
                   elevator_data>>

(* ---- edf_former_request, edf_latter_request ---- *)
NULL == 0

\* &edf->read_list and &edf->write_list, the heads the lists are circular
\* through; seen through list_entry they are pointers to no request
ReadHead == NumRequests + 1
WriteHead == NumRequests + 2

\* rq->queuelist.prev and rq->queuelist.next; an unlinked request points to
\* itself
queuelist_prev(rq) ==
    IF rq \in Range(read_list)
    THEN IF IndexOf(read_list, rq) = 1 THEN ReadHead
         ELSE read_list[IndexOf(read_list, rq) - 1]
    ELSE IF rq \in Range(write_list)
    THEN IF IndexOf(write_list, rq) = 1 THEN WriteHead
         ELSE write_list[IndexOf(write_list, rq) - 1]
    ELSE rq

queuelist_next(rq) ==
    IF rq \in Range(read_list)
    THEN IF IndexOf(read_list, rq) = Len(read_list) THEN ReadHead
         ELSE read_list[IndexOf(read_list, rq) + 1]
    ELSE IF rq \in Range(write_list)
    THEN IF IndexOf(write_list, rq) = Len(write_list) THEN WriteHead
         ELSE write_list[IndexOf(write_list, rq) + 1]
    ELSE rq

\* the return value of edf_former_request(q, rq); the head is chosen by the
\* direction of rq
edf_former_request(rq) ==
    LET head == IF data_dir[rq] = READ THEN ReadHead ELSE WriteHead
    IN  IF queuelist_prev(rq) = head THEN NULL ELSE queuelist_prev(rq)

\* the return value of edf_latter_request(q, rq)
edf_latter_request(rq) ==
    LET head == IF data_dir[rq] = READ THEN ReadHead ELSE WriteHead
    IN  IF queuelist_next(rq) = head THEN NULL ELSE queuelist_next(rq)

(* ---- sysfs stores ---- *)
\* STORE_FUNCTION without the test against MIN
STORE_FUNCTION_no_min(data, MIN, MAX, CONV) ==
    LET clamped == IF data > MAX THEN MAX ELSE data
    IN  IF CONV THEN msecs_to_jiffies(clamped) ELSE clamped

\* the value STORE_FUNCTION writes for the input data
STORE_FUNCTION(data, MIN, MAX, CONV) ==
    LET clamped == IF data < MIN THEN MIN ELSE IF data > MAX THEN MAX ELSE data
    IN  IF CONV THEN msecs_to_jiffies(clamped) ELSE clamped

ReadWeightStoreCall(data) ==
    /\ read_weight' = STORE_FUNCTION(data, 0, INT_MAX, FALSE)
    /\ UNCHANGED <<jiffies, read_list, write_list, fifo_time, data_dir, admitted,
                   dispatch_list, batched_requests, merged_requests,
                   timeslice_quanta, write_weight, merged_away, zero_weight,
                   elevator_data>>

edf_sysfs_read_weight_store == \E data \in WeightInputs : ReadWeightStoreCall(data)

WriteWeightStoreCall(data) ==
    /\ write_weight' = STORE_FUNCTION(data, 0, INT_MAX, FALSE)
    /\ UNCHANGED <<jiffies, read_list, write_list, fifo_time, data_dir, admitted,
                   dispatch_list, batched_requests, merged_requests,
                   timeslice_quanta, read_weight, merged_away, zero_weight,
                   elevator_data>>

edf_sysfs_write_weight_store == \E data \in WeightInputs : WriteWeightStoreCall(data)

QuantaStoreCall(data) ==
    /\ timeslice_quanta' = STORE_FUNCTION(data, 0, INT_MAX, TRUE)
    /\ UNCHANGED <<jiffies, read_list, write_list, fifo_time, data_dir, admitted,
                   dispatch_list, batched_requests, merged_requests,
                   read_weight, write_weight, merged_away, zero_weight,
                   elevator_data>>

edf_sysfs_timeslice_quanta_store == \E data \in QuantaInputs : QuantaStoreCall(data)

\* DUMMY_STORE_FUNCTION with the body of STORE_FUNCTION
DUMMY_STORE_FUNCTION_stores(field, data) == STORE_FUNCTION(data, 0, INT_MAX, FALSE)

\* the value DUMMY_STORE_FUNCTION leaves in the field its attribute shows:
\* it returns count and writes nothing
DUMMY_STORE_FUNCTION(field, data) == field

edf_sysfs_batched_requests_store ==
    /\ \E data \in WeightInputs :
         batched_requests' = DUMMY_STORE_FUNCTION(batched_requests, data)
    /\ UNCHANGED <<jiffies, read_list, write_list, fifo_time, data_dir, admitted,
                   dispatch_list, merged_requests, timeslice_quanta,
                   read_weight, write_weight, merged_away, zero_weight,
                   elevator_data>>

edf_sysfs_merged_requests_store ==
    /\ \E data \in WeightInputs :
         merged_requests' = DUMMY_STORE_FUNCTION(merged_requests, data)
    /\ UNCHANGED <<jiffies, read_list, write_list, fifo_time, data_dir, admitted,
                   dispatch_list, batched_requests, timeslice_quanta,
                   read_weight, write_weight, merged_away, zero_weight,
                   elevator_data>>

(* ---- the clock ---- *)
Tick ==
    /\ jiffies < MaxJiffies
    /\ jiffies' = jiffies + 1
    /\ UNCHANGED <<read_list, write_list, fifo_time, data_dir, admitted,
                   dispatch_list, batched_requests, merged_requests,
                   timeslice_quanta, read_weight, write_weight, merged_away,
                   zero_weight,
                   elevator_data>>

Next ==
    \/ Admit
    \/ Merge
    \/ Dispatch
    \/ edf_sysfs_read_weight_store
    \/ edf_sysfs_write_weight_store
    \/ edf_sysfs_timeslice_quanta_store
    \/ edf_sysfs_batched_requests_store
    \/ edf_sysfs_merged_requests_store
    \/ Tick

Spec == Init /\ [][Next]_vars

\* the block layer keeps calling edf_dispatch and the clock keeps running
FairSpec == Init /\ [][Next]_vars /\ WF_vars(Tick) /\ WF_vars(Dispatch)

(* ---- edf_exit_queue ---- *)
\* edf_exit_queue without the BUG_ON on write_list
edf_exit_queue_reads_only ==
    IF read_list # <<>> THEN "BUG" ELSE "freed"

\* what edf_exit_queue(e) leaves in elevator_data
edf_exit_queue ==
    IF read_list # <<>> THEN "BUG"
    ELSE IF write_list # <<>> THEN "BUG"
    ELSE "freed"

Exit ==
    /\ elevator_data = "edf"
    /\ elevator_data' = edf_exit_queue
    /\ UNCHANGED <<jiffies, read_list, write_list, fifo_time, data_dir, admitted,
                   dispatch_list, batched_requests, merged_requests,
                   timeslice_quanta, read_weight, write_weight, merged_away,
                   zero_weight>>

\* the elevator core calls edf_exit_queue at any point, once; no operation
\* runs after it
NextExit ==
    \/ elevator_data = "edf" /\ Admit
    \/ elevator_data = "edf" /\ Merge
    \/ elevator_data = "edf" /\ Dispatch
    \/ elevator_data = "edf" /\ edf_sysfs_read_weight_store
    \/ elevator_data = "edf" /\ edf_sysfs_write_weight_store
    \/ elevator_data = "edf" /\ edf_sysfs_timeslice_quanta_store
    \/ elevator_data = "edf" /\ edf_sysfs_batched_requests_store
    \/ elevator_data = "edf" /\ edf_sysfs_merged_requests_store
    \/ elevator_data = "edf" /\ Tick
    \/ Exit

ExitSpec == Init /\ [][NextExit]_vars

(* ---- a workload under tunables that are written once, before it starts ---- *)
\* the values a tunable can hold: its default and what a store leaves
QuantaValues ==
    {timeslice_quanta_default}
      \cup {STORE_FUNCTION(m, 0, INT_MAX, TRUE) : m \in QuantaInputs}
ReadWeightValues ==
    {DefaultReadWeight} \cup {STORE_FUNCTION(w, 0, INT_MAX, FALSE) : w \in WeightInputs}
WriteWeightValues ==
    {DefaultWriteWeight} \cup {STORE_FUNCTION(w, 0, INT_MAX, FALSE) : w \in WeightInputs}

InitFixed ==
    /\ jiffies = 0
    /\ read_list = <<>>
    /\ write_list = <<>>
    /\ fifo_time = [r \in Requests |-> 0]
    /\ data_dir = [r \in Requests |-> READ]
    /\ admitted = {}
    /\ dispatch_list = <<>>
    /\ batched_requests = 0
    /\ merged_requests = 0
    /\ timeslice_quanta \in QuantaValues
    /\ read_weight \in ReadWeightValues
    /\ write_weight \in WriteWeightValues
    /\ merged_away = {}
    /\ zero_weight = {}
    /\ elevator_data = "edf"

NextFixed ==
    \/ Admit
    \/ Merge
    \/ Dispatch
    \/ Tick

FixedSpec == InitFixed /\ [][NextFixed]_vars

(* ---- a workload under tunables of the size the stores accept ---- *)
\* a weight of 2^16, and the milliseconds that convert to 2^16 ticks
WideWeightInputs == {65536}
WideQuantaInputs == {65536 * (1000 \div HZ)}

WideStore ==
    \/ \E data \in WideWeightInputs : ReadWeightStoreCall(data)
    \/ \E data \in WideWeightInputs : WriteWeightStoreCall(data)
    \/ \E data \in WideQuantaInputs : QuantaStoreCall(data)

NextWide ==
    \/ Admit
    \/ WideStore
    \/ Tick

WideSpec == Init /\ [][NextWide]_vars

(***************************************************************************)
(* Properties                                                              *)
(***************************************************************************)
Linked(rq) == ~list_empty(rq)

Queued == Range(read_list) \cup Range(write_list)

Dispatched == Range(dispatch_list)

\* the list rq is linked into
ListOf(rq) == IF rq \in Range(read_list) THEN read_list ELSE write_list

\* the requests handed on by the step just taken
Released == {dispatch_list'[i] : i \in (Len(dispatch_list) + 1)..Len(dispatch_list')}

\* the pairs of requests the block layer can pass to edf_merge_request
MergePairs == {p \in admitted \X admitted : p[1] # p[2]}

(* C1  No early dispatch: a call of edf_dispatch made at time jiffies never
       hands on a request whose deadline is strictly later than jiffies.   *)
C1_NoEarlyDispatch ==
    [][\A rq \in Released : fifo_time[rq] <= jiffies]_vars

\* requests were handed on while one that is not yet due stayed behind
C1_Witness ==
    /\ batched_requests > 0
    /\ \E rq \in Queued : fifo_time[rq] > jiffies
    /\ \E rq \in Dispatched : fifo_time[rq] = jiffies

(* C2  Eventual dispatch: while the clock keeps running and edf_dispatch
       keeps being called, every request that was added and is not removed
       as the candidate of a merge is eventually handed on, and it is
       handed on once.  A request leaves the lists only by being handed on
       or merged away and never comes back (first conjunct), so "every
       queued request eventually leaves" is "the lists drain again and
       again" (second conjunct); the third conjunct is "at most once".     *)
C2_EventualDispatch ==
    /\ [](admitted = Queued \cup Dispatched \cup merged_away)
    /\ []<>(Queued = {})
    /\ [](Cardinality(Dispatched) = Len(dispatch_list))

\* every request was added, none is left, and one was handed on at its
\* deadline, which lay in the future when it was added
C2_Witness ==
    /\ admitted = Requests
    /\ Queued = {}
    /\ \E rq \in Dispatched : fifo_time[rq] = jiffies /\ jiffies > 0

(* C3  (as claimed) After every call Merge(node, candidate), whether or not
       both were still queued, node's deadline is at most the smaller of
       the two deadlines before the call.                                  *)
C3_Original ==
    \A p \in MergePairs :
      LET node == p[1]
          next == p[2]
      IN  edf_merge_request(node, next).fifo_time[node]
            <= Min(fifo_time[node], fifo_time[next])

(* C3  (amended) After every call Merge(node, candidate) made while both
       requests are still queued, node's deadline is at most the smaller
       of the two deadlines before the call; a call made when either
       request is unlinked leaves node's deadline as it was.               *)
C3_MergeNeverRaises ==
    \A p \in MergePairs :
      LET node == p[1]
          next == p[2]
          after == edf_merge_request(node, next).fifo_time[node]
      IN  IF Linked(node) /\ Linked(next)
          THEN after <= Min(fifo_time[node], fifo_time[next])
          ELSE after = fifo_time[node]

\* the one merge so far has lowered the deadline of its node to the
\* candidate's
C3_Witness ==
    /\ merged_requests = 1
    /\ \E node \in Queued, next \in merged_away :
         /\ admitted = {node, next}
         /\ fifo_time[node] = fifo_time[next]

(* C4  Merge policy: for Merge(node, candidate) on two distinct queued
       requests, if candidate's deadline is strictly earlier than node's,
       node ends at the place candidate held in candidate's list (the same
       neighbours among the other requests) and carries candidate's
       deadline; otherwise node keeps its place and deadline.  Either way
       candidate is on neither list afterwards and every other request
       keeps its deadline and its order relative to the others.            *)
C4_MergePolicy ==
    \A p \in MergePairs :
      LET node == p[1]
          next == p[2]
          res == edf_merge_request(node, next)
          earlier == fifo_time[next] < fifo_time[node]
          inRead == next \in Range(read_list)
          base == Without(ListOf(next), node)
          placed == [base EXCEPT ![IndexOf(base, next)] = node]
      IN  (Linked(node) /\ Linked(next)) =>
            /\ earlier =>
                 /\ res.fifo_time = [fifo_time EXCEPT ![node] = fifo_time[next]]
                 /\ res.read_list = IF inRead THEN placed
                                              ELSE Without(read_list, node)
                 /\ res.write_list = IF inRead THEN Without(write_list, node)
                                               ELSE placed
            /\ ~earlier =>
                 /\ res.fifo_time = fifo_time
                 /\ res.read_list = Without(read_list, next)
                 /\ res.write_list = Without(write_list, next)
            /\ next \notin Range(res.read_list) \cup Range(res.write_list)
            /\ \A rq \in Requests \ {node} : res.fifo_time[rq] = fifo_time[rq]
            /\ Without(res.read_list, node)
                 = Without(Without(read_list, node), next)
            /\ Without(res.write_list, node)
                 = Without(Without(write_list, node), next)

\* the one merge so far has moved a write to the head of the read list, in
\* front of a read that stood behind the candidate
C4_Witness ==
    /\ merged_requests = 1
    /\ Cardinality(merged_away) = 1
    /\ Len(read_list) = 2
    /\ data_dir[read_list[1]] = WRITE
    /\ data_dir[read_list[2]] = READ
    /\ \E next \in merged_away : fifo_time[read_list[1]] = fifo_time[next]

(* C5  Merge idempotent removal: a merge of two queued requests unlinks
       the candidate, and a call of Merge with an unlinked request (merged
       away or handed on) as either argument changes neither list, no
       deadline and no counter.                                            *)
C5_MergeIdempotent ==
    /\ [](\A p \in MergePairs :
            LET node == p[1]
                next == p[2]
                res == edf_merge_request(node, next)
            IN  IF Linked(node) /\ Linked(next)
                THEN next \notin Range(res.read_list) \cup Range(res.write_list)
                ELSE /\ res.read_list = read_list
                     /\ res.write_list = write_list
                     /\ res.fifo_time = fifo_time
                     /\ res.merged_requests = merged_requests
                     /\ ~res.cleared)
    /\ [][batched_requests' # batched_requests =>
            ~\E p \in MergePairs : MergeCall(p[1], p[2])]_vars

\* a merge has unlinked its candidate, another request was handed on, and
\* a third is still queued: Merge can be called with either unlinked
\* request and the queued one
C5_Witness ==
    /\ merged_away # {}
    /\ Dispatched # {}
    /\ \E rq \in Queued : \E next \in merged_away : fifo_time[next] < fifo_time[rq]

(* C6  (as claimed) Merge(A, B) on two queued requests with B's deadline
       not earlier than A's: A keeps its deadline, B is removed and
       merged_requests increases by 1.                                     *)
C6_Original ==
    \A p \in MergePairs :
      LET node == p[1]
          next == p[2]
          res == edf_merge_request(node, next)
      IN  (/\ Linked(node) /\ Linked(next)
           /\ ~(fifo_time[next] < fifo_time[node])) =>
            /\ res.fifo_time[node] = fifo_time[node]
            /\ next \notin Range(res.read_list) \cup Range(res.write_list)
            /\ res.merged_requests = merged_requests + 1

(* C6  (amended) Merge(A, B) on two queued requests with B's deadline not
       earlier than A's: A keeps its deadline, B is removed from its list
       and merged_requests is left unchanged.                              *)
C6_MergeLaterCandidate ==
    \A p \in MergePairs :
      LET node == p[1]
          next == p[2]
          res == edf_merge_request(node, next)
      IN  (/\ Linked(node) /\ Linked(next)
           /\ ~(fifo_time[next] < fifo_time[node])) =>
            /\ res.fifo_time[node] = fifo_time[node]
            /\ next \notin Range(res.read_list) \cup Range(res.write_list)
            /\ res.cleared
            /\ res.merged_requests = merged_requests

\* of the two requests added so far, the one with the later deadline has
\* been merged into the other, which is still queued
C6_Witness ==
    /\ merged_requests = 0
    /\ \E node \in Queued, next \in merged_away :
         /\ admitted = {node, next}
         /\ fifo_time[next] > fifo_time[node]

(* C7  merged_requests accounting: merged_requests increases by exactly 1
       on a Merge of two queued requests whose candidate has the strictly
       earlier deadline, and no other step changes it: not a Merge that
       does not reposition, not a Merge with an unlinked argument, not any
       other operation.                                                    *)
C7_MergedAccounting ==
    /\ [](\A p \in MergePairs :
            edf_merge_request(p[1], p[2]).merged_requests
              = merged_requests +
                  (IF /\ Linked(p[1]) /\ Linked(p[2])
                      /\ fifo_time[p[2]] < fifo_time[p[1]]
                   THEN 1 ELSE 0))
    /\ [][merged_requests' # merged_requests =>
            \E p \in MergePairs : MergeCall(p[1], p[2])]_vars

\* two merges have happened and exactly one of them repositioned its node
C7_Witness ==
    /\ Cardinality(merged_away) = 2
    /\ merged_requests = 1

(* C8  batched_requests accounting: edf_dispatch returns the number of
       requests it unlinked from the two lists together, zero when nothing
       at either head is due, and adds exactly that number to
       batched_requests; no other step changes batched_requests.           *)
C8_BatchedAccounting ==
    /\ [](LET res == edf_dispatch
          IN  /\ res.ret = (Len(read_list) + Len(write_list))
                             - (Len(res.read_list) + Len(res.write_list))
              /\ res.ret = Len(res.dispatch_list) - Len(dispatch_list)
              /\ res.batched_requests = batched_requests + res.ret
              /\ (\A l \in {read_list, write_list} :
                    l = <<>> \/ fifo_time[Head(l)] > jiffies) => res.ret = 0)
    /\ [][IF Dispatch
          THEN batched_requests' = batched_requests + edf_dispatch.ret
          ELSE batched_requests' = batched_requests]_vars

\* dispatches have handed on requests of both directions, and a request
\* that is not yet due is still queued
C8_Witness ==
    /\ batched_requests = 2
    /\ Len(dispatch_list) = 2
    /\ data_dir[dispatch_list[1]] # data_dir[dispatch_list[2]]
    /\ \E rq \in Queued : fifo_time[rq] > jiffies

(* C9  Scenario 5: a write added while write_weight is 0 is handed on by
       the next call of edf_dispatch, whatever was pending in front of it:
       a call of edf_dispatch leaves no such write on a list.              *)
C9_ZeroWeightWrites ==
    LET res == edf_dispatch
    IN  zero_weight \cap (Range(res.read_list) \cup Range(res.write_list)) = {}

(* C10 Queue membership exclusivity: every request occurs at most once in
       read_list and write_list together, and a request that was handed on
       or merged away is on neither.                                       *)
C10_Exclusive ==
    /\ \A rq \in Requests :
         Cardinality({i \in 1..Len(read_list) : read_list[i] = rq})
           + Cardinality({i \in 1..Len(write_list) : write_list[i] = rq}) <= 1
    /\ \A rq \in Dispatched \cup merged_away : list_empty(rq)
    /\ Queued \subseteq admitted

\* one request was handed on, one merged away, and the third sits on the
\* list of the other direction after a merge moved it there
C10_Witness ==
    /\ Dispatched # {}
    /\ merged_away # {}
    /\ \E rq \in Range(read_list) : data_dir[rq] = WRITE

\* the deadlines along a list do not decrease from head to tail
Sorted(l) == \A i \in 1..(Len(l) - 1) : fifo_time[l[i]] <= fifo_time[l[i + 1]]

(* C11 Deadline order: while the three tunables keep the values they had
       when the first request arrived and the clock does not run backwards,
       the deadlines along read_list and along write_list do not decrease
       from head to tail, after any sequence of adds, merges and
       dispatches.                                                         *)
C11_DeadlineOrder == Sorted(read_list) /\ Sorted(write_list)

\* a merge has moved a request to the head of a list, ahead of a request
\* that was added before it and carries a strictly later deadline
C11_Witness ==
    /\ merged_requests > 0
    /\ \E l \in {read_list, write_list} :
         /\ Len(l) >= 2
         /\ fifo_time[l[1]] < fifo_time[l[2]]
         /\ l[1] > l[2]

\* d = q * w, without forming the product
IsProduct(d, q, w) == IF q = 0 THEN d = 0 ELSE d % q = 0 /\ d \div q = w

(* C12 Admit: edf_add_request of a new request sets its deadline to
       jiffies + timeslice_quanta * weight of its direction, for every
       value of the tunables that the stores accept (0..INT_MAX), appends
       it at the tail of the list of its direction, and leaves the other
       list, the deadlines and the order of all other requests and both
       counters as they were.                                              *)
C12_Admit ==
    \A dir \in Dirs :
      LET rq == Cardinality(admitted) + 1
          res == edf_add_request(rq, dir)
          weight == IF dir = READ THEN read_weight ELSE write_weight
      IN  rq \in Requests =>
            /\ IsProduct(res.fifo_time[rq] - jiffies, timeslice_quanta, weight)
            /\ res.read_list = IF dir = READ THEN Append(read_list, rq)
                                             ELSE read_list
            /\ res.write_list = IF dir = READ THEN write_list
                                              ELSE Append(write_list, rq)
            /\ \A o \in Requests \ {rq} : res.fifo_time[o] = fifo_time[o]

\* every request is on the list of its own direction
DirectionConsistent ==
    /\ \A rq \in Range(read_list) : data_dir[rq] = READ
    /\ \A rq \in Range(write_list) : data_dir[rq] = WRITE

\* the requests one call of edf_dispatch hands on, in the order it does
Batch == SubSeq(edf_dispatch.dispatch_list, Len(dispatch_list) + 1,
                Len(edf_dispatch.dispatch_list))

(* C13 Dispatch order: within one call of edf_dispatch every read that is
       handed on is handed on before any write that is handed on, and
       requests taken from the same list are handed on in the order they
       had on that list, head first.                                       *)
C13_DispatchOrder ==
    \A i \in 1..Len(Batch) : \A j \in (i + 1)..Len(Batch) :
      /\ ~(data_dir[Batch[i]] = WRITE /\ data_dir[Batch[j]] = READ)
      /\ \A l \in {read_list, write_list} :
           (Batch[i] \in Range(l) /\ Batch[j] \in Range(l)) =>
             IndexOf(l, Batch[i]) < IndexOf(l, Batch[j])

\* the same order taken by list: what comes from read_list is handed on
\* before what comes from write_list, each list head first
DispatchListOrder ==
    \E n \in 0..Len(read_list) : \E m \in 0..Len(write_list) :
      Batch = SubSeq(read_list, 1, n) \o SubSeq(write_list, 1, m)

\* C13 holds wherever every request is on the list of its direction
C13_WhenConsistent == DirectionConsistent => C13_DispatchOrder

(* C14 Neighbour lookup: for a queued request rq, edf_former_request
       returns the request right in front of rq on the list of rq's
       direction, or none when rq is at its head; edf_latter_request
       returns the request right behind it, or none when rq is at its
       tail; and whenever edf_former_request returns a request, the latter
       request of that one is rq.                                          *)
C14_NeighbourLookup ==
    \A rq \in Queued :
      LET l == IF data_dir[rq] = READ THEN read_list ELSE write_list
          pos == IF rq \in Range(l) THEN IndexOf(l, rq) ELSE 0
          front == IF pos > 1 THEN l[pos - 1] ELSE NULL
          behind == IF pos > 0 /\ pos < Len(l) THEN l[pos + 1] ELSE NULL
      IN  /\ edf_former_request(rq) = front
          /\ edf_latter_request(rq) = behind
          /\ edf_former_request(rq) \in Requests =>
                edf_latter_request(edf_former_request(rq)) = rq

\* C14 holds wherever every request is on the list of its direction
C14_WhenConsistent == DirectionConsistent => C14_NeighbourLookup

(* C15 Shutdown: edf_exit_queue frees the scheduler only when read_list
       and write_list are both empty; otherwise it halts in BUG_ON and
       frees nothing.  No run ends with a freed scheduler that still had
       requests on a list.                                                 *)
C15_Shutdown ==
    /\ edf_exit_queue = "freed" <=> (read_list = <<>> /\ write_list = <<>>)
    /\ edf_exit_queue \in {"freed", "BUG"}
    /\ elevator_data = "freed" => Queued = {}
    /\ elevator_data = "BUG" => Queued # {}

\* edf_exit_queue was called after a dispatch with read_list empty and a
\* write still queued, and halted
C15_Witness ==
    /\ elevator_data = "BUG"
    /\ batched_requests > 0
    /\ read_list = <<>>
    /\ write_list # <<>>

\* values written to an attribute, out to both ends of int
StoreProbe == {-INT_MAX, -1, 0, 1, 999, 1000, 1001, INT_MAX}

\* v brought into 0..INT_MAX
Clamp(v) == IF v < 0 THEN 0 ELSE Min(v, INT_MAX)

\* n is m milliseconds in ticks, rounded up
IsTicks(n, m) ==
    IF m = 0 THEN n = 0
    ELSE /\ n > 0
         /\ (n - 1) * (1000 \div HZ) < m
         /\ m - (n - 1) * (1000 \div HZ) <= 1000 \div HZ

\* everything but the tunables
NonTunables ==
    <<jiffies, read_list, write_list, fifo_time, data_dir, admitted,
      dispatch_list, batched_requests, merged_requests, merged_away,
      zero_weight, elevator_data>>

(* C16 Parameter writes clamp: a write of any integer v to read_weight,
       write_weight or timeslice_quanta is never rejected; it stores v
       brought into 0..INT_MAX (for timeslice_quanta that many
       milliseconds converted to ticks) and changes nothing but the
       tunable written.                                                    *)
C16_StoreClamps ==
    /\ [](\A v \in StoreProbe :
            /\ STORE_FUNCTION(v, 0, INT_MAX, FALSE) = Clamp(v)
            /\ IsTicks(STORE_FUNCTION(v, 0, INT_MAX, TRUE), Clamp(v)))
    /\ [](/\ \A v \in WeightInputs : ENABLED ReadWeightStoreCall(v)
          /\ \A v \in WeightInputs : ENABLED WriteWeightStoreCall(v)
          /\ \A v \in QuantaInputs : ENABLED QuantaStoreCall(v))
    /\ [][/\ read_weight' # read_weight =>
              /\ \E v \in WeightInputs : read_weight' = Clamp(v)
              /\ UNCHANGED <<write_weight, timeslice_quanta, NonTunables>>
          /\ write_weight' # write_weight =>
              /\ \E v \in WeightInputs : write_weight' = Clamp(v)
              /\ UNCHANGED <<read_weight, timeslice_quanta, NonTunables>>
          /\ timeslice_quanta' # timeslice_quanta =>
              /\ \E v \in QuantaInputs : IsTicks(timeslice_quanta', Clamp(v))
              /\ UNCHANGED <<read_weight, write_weight, NonTunables>>]_vars

\* requests are queued, a negative value written to timeslice_quanta was
\* stored as 0, and the weights are as they were
C16_Witness ==
    /\ timeslice_quanta = 0
    /\ read_weight = DefaultReadWeight
    /\ write_weight = DefaultWriteWeight
    /\ Queued # {}

(* C17 Counters: merged_requests and batched_requests never decrease, and
       a write to the attribute of either counter is accepted but leaves
       both counters and everything else as it was.                        *)
C17_Counters ==
    /\ [][/\ merged_requests' >= merged_requests
          /\ batched_requests' >= batched_requests]_vars
    /\ [](\A data \in StoreProbe :
            /\ DUMMY_STORE_FUNCTION(merged_requests, data) = merged_requests
            /\ DUMMY_STORE_FUNCTION(batched_requests, data) = batched_requests)
    /\ [](/\ ENABLED edf_sysfs_merged_requests_store
          /\ ENABLED edf_sysfs_batched_requests_store)

\* both counters have counted, so a write of 0 or of a negative value that
\* was stored would show
C17_Witness ==
    /\ merged_requests > 0
    /\ batched_requests > 0
    /\ Queued # {}

\* the length of the longest prefix of l whose requests are all due
DuePrefix(l) ==
    CHOOSE n \in 0..Len(l) :
      /\ \A i \in 1..n : fifo_time[l[i]] <= jiffies
      /\ n = Len(l) \/ fifo_time[l[n + 1]] > jiffies

(* C18 Dispatch releases a prefix: from any state a call of edf_dispatch
       takes from each list exactly its longest head prefix of requests
       with deadline <= jiffies and leaves the rest in the same order and
       with the same deadlines; so when both lists are sorted, no request
       with deadline <= jiffies is left on a list.                         *)
C18_DispatchPrefix ==
    /\ [](LET res == edf_dispatch
              n == DuePrefix(read_list)
              m == DuePrefix(write_list)
          IN  /\ res.read_list = SubSeq(read_list, n + 1, Len(read_list))
              /\ res.write_list = SubSeq(write_list, m + 1, Len(write_list))
              /\ Batch = SubSeq(read_list, 1, n) \o SubSeq(write_list, 1, m)
              /\ (Sorted(read_list) /\ Sorted(write_list)) =>
                    \A rq \in Range(res.read_list) \cup Range(res.write_list) :
                      fifo_time[rq] > jiffies)
    /\ [][batched_requests' # batched_requests => fifo_time' = fifo_time]_vars

\* after a dispatch, a list whose head is not yet due holds a due request
\* behind it: the walk stopped at the head
C18_Witness ==
    /\ batched_requests > 0
    /\ \E l \in {read_list, write_list} :
         /\ Len(l) >= 2
         /\ fifo_time[l[1]] > jiffies
         /\ fifo_time[l[2]] <= jiffies

(* C19 Merge preserves deadline order: if read_list and write_list are
       both sorted by deadline before a call of edf_merge_request, they are
       both sorted after it, for any two requests, linked or not, and
       whatever the tunables were when the requests were added; so the only
       step that takes sorted lists to an unsorted list is an add.         *)
C19_MergeKeepsOrder ==
    /\ [](\A p \in MergePairs :
            LET res == edf_merge_request(p[1], p[2])
                sorted(l) == \A i \in 1..(Len(l) - 1) :
                               res.fifo_time[l[i]] <= res.fifo_time[l[i + 1]]
            IN  (Sorted(read_list) /\ Sorted(write_list)) =>
                  (sorted(res.read_list) /\ sorted(res.write_list)))
    /\ [][(/\ Sorted(read_list) /\ Sorted(write_list)
           /\ ~(Sorted(read_list) /\ Sorted(write_list))') =>
            Cardinality(admitted') = Cardinality(admitted) + 1]_vars

\* after a tunable was changed, a merge has left a request with the
\* deadline of its candidate behind a request with a strictly earlier
\* deadline
C19_Witness ==
    /\ merged_requests > 0
    /\ <<timeslice_quanta, read_weight, write_weight>>
         # <<timeslice_quanta_default, DefaultReadWeight, DefaultWriteWeight>>
    /\ \E l \in {read_list, write_list} :
         /\ Len(l) = 2
         /\ Sorted(l)
         /\ fifo_time[l[1]] < fifo_time[l[2]]
         /\ \E next \in merged_away : fifo_time[next] = fifo_time[l[2]]

(* C20 Direction consistency: every request on read_list has direction
       READ and every request on write_list has direction WRITE, after any
       sequence of adds, dispatches and merges, merges of two queued
       requests of different directions included.                          *)
C20_DirectionConsistency ==
    \A rq \in Queued :
      (rq \in Range(read_list)) <=> (data_dir[rq] = READ)

\* the lists hold each request on the list of its direction as long as no
\* merge has repositioned a request
C20_WithoutReposition == merged_requests = 0 => DirectionConsistent
====
